---- MODULE Spec2Model ----
(***************************************************************************)
(* Question-synthesis pipeline of the Intelligent Question Generator       *)
(* (src/utils.py).  Python strings are sequences of one-character strings, *)
(* so that strip(), lower(), regular-expression replacement and            *)
(* str.replace() are computed character by character.  The external        *)
(* collaborators (spaCy annotation, WordNet, the Groq stem service, the     *)
(* random generator) are nondeterministic choices over small sets.  The    *)
(* difficulty and bloom fields of a record are computed from the sentence  *)
(* alone, feed nothing else, and are left out of the records.  clean_text  *)
(* acts on the text before the annotation service segments it; the model   *)
(* starts from the segments (doc_sents).                                   *)
(***************************************************************************)
EXTENDS Integers, Sequences, FiniteSets, TLC

VARIABLES
    pc,             \* position of the call under study
    sent,           \* builder input: the sentence
    ans,            \* result of extract_candidate_answer(sent)
    wordnet_ok,     \* _WORDNET_OK
    lemmas,         \* lemma names gathered from WordNet, in set-iteration order
    spans,          \* doc.ents and doc.noun_chunks of the sentence
    needed,         \* assemble_distractors' needed
    qs,             \* stems handed to a builder
    clean,          \* result of assemble_distractors
    rec,            \* record returned by a builder
    doc,            \* nlp(sent): the annotation extract_candidate_answer reads
    doc_sents,      \* doc.sents of the cleaned text
    max_sents,      \* generate_from_text's max_sents
    num_q_per_sent, \* generate_from_text's num_q_per_sent
    include_types,  \* generate_from_text's include_types (a tuple)
    sentences,      \* split_sentences' result
    idx,            \* number of sentences the loop has finished
    out,            \* the running collection
    returned,       \* the value generate_from_text returns
    calls           \* history: the sentences qg_from_sentence was called with

vars == <<pc, sent, ans, wordnet_ok, lemmas, spans, needed, qs, clean, rec, doc,
          doc_sents, max_sents, num_q_per_sent, include_types, sentences,
          idx, out, returned, calls>>

builderVars == <<sent, ans, wordnet_ok, lemmas, spans, needed, qs, clean, rec, doc>>
genVars == <<doc_sents, max_sents, num_q_per_sent, include_types, sentences,
             idx, out, returned, calls>>

----------------------------------------------------------------------------
(* Bounds of the model *)

MaxLemmas == 2
MaxSpans == 2
MaxNeeded == 3

----------------------------------------------------------------------------
(* Python string primitives *)

Min(a, b) == IF a < b THEN a ELSE b
Abs(n) == IF n < 0 THEN 0 - n ELSE n

LowerChar(c) ==
    CASE c = "A" -> "a" [] c = "B" -> "b" [] c = "C" -> "c" [] c = "D" -> "d"
      [] c = "E" -> "e" [] c = "F" -> "f" [] c = "G" -> "g" [] c = "H" -> "h"
      [] c = "I" -> "i" [] c = "J" -> "j" [] c = "K" -> "k" [] c = "L" -> "l"
      [] c = "M" -> "m" [] c = "N" -> "n" [] c = "O" -> "o" [] c = "P" -> "p"
      [] c = "Q" -> "q" [] c = "R" -> "r" [] c = "S" -> "s" [] c = "T" -> "t"
      [] c = "U" -> "u" [] c = "V" -> "v" [] c = "W" -> "w" [] c = "X" -> "x"
      [] c = "Y" -> "y" [] c = "Z" -> "z" [] OTHER -> c

lower(s) == [i \in DOMAIN s |-> LowerChar(s[i])]

IsSpace(c) == c \in {" ", "\t", "\n"}

RECURSIVE lstrip(_)
lstrip(s) == IF s # <<>> /\ IsSpace(Head(s)) THEN lstrip(Tail(s)) ELSE s

RECURSIVE rstrip(_)
rstrip(s) ==
    IF s # <<>> /\ IsSpace(s[Len(s)]) THEN rstrip(SubSeq(s, 1, Len(s) - 1)) ELSE s

strip(s) == rstrip(lstrip(s))

\* len(s.split()): the number of maximal runs of non-space characters
WordCount(s) ==
    Cardinality({i \in DOMAIN s : ~IsSpace(s[i]) /\ (i = 1 \/ IsSpace(s[i - 1]))})

\* s[:n] for n >= 0
Take(s, n) == SubSeq(s, 1, Min(n, Len(s)))

\* x in t, for a list or tuple t
InSeq(x, t) == \E i \in DOMAIN t : t[i] = x

STOPLIKE ==
    { <<"t", "h", "e">>, <<"a">>, <<"a", "n">>, <<"a", "n", "d">>, <<"o", "r">>, <<"o", "f">>, <<"t", "o">>, <<"i", "n">>, <<"o", "n">>, <<"f", "o", "r">>,
      <<"f", "r", "o", "m">>, <<"w", "i", "t", "h">>, <<"a", "s">>, <<"b", "y">>, <<"i", "s">>, <<"w", "a", "s">>, <<"w", "e", "r", "e">>, <<"b", "e">>, <<"b", "e", "e", "n">>,
      <<"a", "r", "e">>, <<"t", "h", "a", "t">>, <<"t", "h", "i", "s">>, <<"t", "h", "e", "s", "e">>, <<"t", "h", "o", "s", "e">>, <<"i", "t">>, <<"i", "t", "s">>, <<"a", "t">>,
      <<"i", "n", "t", "o">>, <<"t", "h", "a", "n">>, <<"t", "h", "e", "n">> }

----------------------------------------------------------------------------
(* Distractors *)

valid_option_noanswer(opt, answer) ==
    IF opt = <<>> THEN FALSE
    ELSE LET o == strip(opt) IN
         IF lower(o) \in STOPLIKE THEN FALSE
         ELSE IF Len(o) < 3 THEN FALSE
         ELSE TRUE

valid_option(opt, answer) ==
    IF opt = <<>> THEN FALSE
    ELSE LET o == strip(opt) IN
         IF lower(o) \in STOPLIKE THEN FALSE
         ELSE IF lower(o) = lower(strip(answer)) THEN FALSE
         ELSE IF Len(o) < 3 THEN FALSE
         ELSE TRUE

\* lemma.replace("_", " ")
underscore_to_space(lemma) ==
    [i \in DOMAIN lemma |-> IF lemma[i] = "_" THEN " " ELSE lemma[i]]

\* the list a set built by adding the entries of s in turn iterates over
RECURSIVE Distinct(_)
Distinct(s) ==
    IF s = <<>> THEN <<>>
    ELSE LET r == Distinct(SubSeq(s, 1, Len(s) - 1)) IN
         IF InSeq(s[Len(s)], r) THEN r ELSE Append(r, s[Len(s)])

\* sorted(s, key=...): a stable insertion sort
RECURSIVE InsertByKey(_, _, _)
InsertByKey(x, s, answer) ==
    IF s = <<>> THEN <<x>>
    ELSE IF Abs(Len(Head(s)) - Len(answer)) <= Abs(Len(x) - Len(answer))
         THEN <<Head(s)>> \o InsertByKey(x, Tail(s), answer)
         ELSE <<x>> \o s

RECURSIVE SortByLenDiff(_, _)
SortByLenDiff(s, answer) ==
    IF s = <<>> THEN <<>>
    ELSE InsertByKey(s[Len(s)], SortByLenDiff(SubSeq(s, 1, Len(s) - 1), answer), answer)

\* ok = FALSE also stands for a WordNet lookup that raises: both return []
wordnet_distractors(answer, topn, ok, lems) ==
    IF ~ok \/ answer = <<>> THEN <<>>
    ELSE LET cands == [i \in DOMAIN lems |-> underscore_to_space(lems[i])]
             kept == SelectSeq(cands, LAMBDA c : lower(c) # lower(answer))
             srt == SortByLenDiff(Distinct(kept), answer)
             outl == SelectSeq(srt, LAMBDA d : valid_option(d, answer))
         IN  Take(outl, topn)

\* the set cands of semantic_distractors_from_text
SemCands(answer, spns) ==
    { e.text : e \in { x \in spns : /\ x.kind = "ent"
                                     /\ lower(x.text) # lower(answer)
                                     /\ valid_option(x.text, answer) } }
    \cup
    { strip(c.text) : c \in { x \in spns :
                                /\ x.kind = "chunk"
                                /\ lower(strip(x.text)) # lower(answer)
                                /\ WordCount(strip(x.text)) >= 1
                                /\ WordCount(strip(x.text)) <= 3
                                /\ valid_option(strip(x.text), answer) } }

\* the orders in which the similarity scores can rank a set of candidates
Orderings(S) ==
    { f \in [1..Cardinality(S) -> S] : \A i, j \in DOMAIN f : i # j => f[i] # f[j] }

\* ranked: SemCands in descending order of the similarity score
semantic_distractors_from_text(answer, spns, topn, ranked) == Take(ranked, topn)

\* the loop of assemble_distractors, from pool position i on
RECURSIVE CleanLoop(_, _, _, _, _)
CleanLoop(pool, i, answer, n, acc) ==
    IF i > Len(pool) THEN acc
    ELSE LET p == pool[i]
             acc2 == IF valid_option(p, answer)
                        /\ ~\E j \in DOMAIN acc : lower(acc[j]) = lower(p)
                     THEN Append(acc, p) ELSE acc
         IN  IF Len(acc2) >= n THEN acc2
             ELSE CleanLoop(pool, i + 1, answer, n, acc2)

RECURSIVE CleanLoopNoSeen(_, _, _, _, _)
CleanLoopNoSeen(pool, i, answer, n, acc) ==
    IF i > Len(pool) THEN acc
    ELSE LET p == pool[i]
             acc2 == IF valid_option(p, answer) THEN Append(acc, p) ELSE acc
         IN  IF Len(acc2) >= n THEN acc2
             ELSE CleanLoopNoSeen(pool, i + 1, answer, n, acc2)

assemble_distractors_noseen(answer, n, ok, lems, spns, ranked) ==
    LET pool1 == wordnet_distractors(answer, n, ok, lems)
        remain == n - Len(pool1)
        pool == IF remain > 0
                THEN pool1 \o semantic_distractors_from_text(answer, spns, remain + 3, ranked)
                ELSE pool1
    IN  Take(CleanLoopNoSeen(pool, 1, answer, n, <<>>), n)

assemble_distractors(answer, n, ok, lems, spns, ranked) ==
    LET pool1 == wordnet_distractors(answer, n, ok, lems)
        remain == n - Len(pool1)
        pool == IF remain > 0
                THEN pool1 \o semantic_distractors_from_text(answer, spns, remain + 3, ranked)
                ELSE pool1
    IN  Take(CleanLoop(pool, 1, answer, n, <<>>), n)

----------------------------------------------------------------------------
(* Inputs the collaborators can produce *)

AnswerU == { <<>>, <<"c", "a", "t">>, <<"p", "r", "o", "c", "e", "s", "s">>, <<"a", " ", "b", " ", "c", " ", "d", " ", "e", " ", "f">> }

LemmaU == { <<"D", "o", "g">>, <<"p", "r", "o", "c", "e", "s", "s">>, <<"h", "o", "t", "_", "d", "o", "g">>, <<"a", "b">> }

SpanU == { [text |-> <<"d", "o", "g">>, kind |-> "chunk"],
           [text |-> <<"t", "h", "e">>, kind |-> "chunk"],
           [text |-> <<"a", " ", "b", " ", "c", " ", "d">>, kind |-> "chunk"],
           [text |-> <<"C", "a", "t">>, kind |-> "ent"],
           [text |-> <<"P", "r", "o", "c", "e", "s", "s">>, kind |-> "ent"] }

\* the lists qg_from_sentence can return
StemLists == { <<>>, << <<"Q", "1", "?">> >>, << <<"Q", "1", "?">>, <<"Q", "2", "?">> >> }

\* the sequences of at most n distinct elements of S
RECURSIVE SeqsUpTo(_, _)
SeqsUpTo(S, n) ==
    IF n = 0 THEN {<<>>}
    ELSE LET prev == SeqsUpTo(S, n - 1) IN
         prev \cup { Append(s, x) : s \in prev, x \in S }

DistinctSeqs(S, n) ==
    { s \in SeqsUpTo(S, n) : \A i, j \in DOMAIN s : i # j => s[i] # s[j] }

SubsetsUpTo(S, n) == { T \in SUBSET S : Cardinality(T) <= n }

NoRecord == [type |-> "empty"]

\* the annotation of a text nothing was found in
NoDoc == [tokens |-> <<>>, ents |-> <<>>, noun_chunks |-> <<>>]

BuilderIdle ==
    /\ sent = <<>> /\ ans = <<>> /\ wordnet_ok = FALSE /\ lemmas = <<>>
    /\ spans = {} /\ needed = 0 /\ qs = <<>> /\ clean = <<>> /\ rec = NoRecord
    /\ doc = NoDoc

GenIdle ==
    /\ doc_sents = <<>> /\ max_sents = 0 /\ num_q_per_sent = 0
    /\ include_types = <<>> /\ sentences = <<>> /\ idx = 0 /\ out = <<>>
    /\ returned = <<>> /\ calls = <<>>

\* a sentence whose extracted answer is a
SentenceOf(a) == IF a = <<>> THEN <<"1", ".">> ELSE a

----------------------------------------------------------------------------
(* assemble_distractors as a pure function *)

InitAssemble ==
    /\ pc = "ready"
    /\ ans \in AnswerU
    /\ sent = SentenceOf(ans)
    /\ wordnet_ok \in BOOLEAN
    /\ lemmas \in DistinctSeqs(LemmaU, MaxLemmas)
    /\ (~wordnet_ok => lemmas = <<>>)
    /\ spans \in SubsetsUpTo(SpanU, MaxSpans)
    /\ needed \in 0..MaxNeeded
    /\ qs = <<>> /\ clean = <<>> /\ rec = NoRecord
    /\ doc = NoDoc
    /\ GenIdle

CallAssemble ==
    /\ pc = "ready"
    /\ \E ranked \in Orderings(SemCands(ans, spans)) :
         clean' = assemble_distractors(ans, needed, wordnet_ok, lemmas, spans, ranked)
    /\ pc' = "done"
    /\ UNCHANGED <<doc, sent, ans, wordnet_ok, lemmas, spans, needed, qs, rec>>
    /\ UNCHANGED genVars

NextAssemble == CallAssemble

SpecAssemble == InitAssemble /\ [][NextAssemble]_vars

\* C2: assemble_distractors returns at most `needed` strings, each non-empty,
\* at least 3 characters long, not a stop word, not equal to the answer
\* case-insensitively, and no two of them equal case-insensitively.
C2_AssembleValid ==
    pc = "done" =>
        /\ Len(clean) <= needed
        /\ \A i \in DOMAIN clean :
             /\ clean[i] # <<>>
             /\ Len(clean[i]) >= 3
             /\ lower(clean[i]) \notin STOPLIKE
             /\ lower(clean[i]) # lower(ans)
        /\ \A i, j \in DOMAIN clean : i # j => lower(clean[i]) # lower(clean[j])

\* the ontology offered "Dog", the sentence offered "dog", and one was kept
C2_Witness ==
    /\ pc = "done"
    /\ needed = 3
    /\ InSeq(<<"D", "o", "g">>, lemmas)
    /\ [text |-> <<"d", "o", "g">>, kind |-> "chunk"] \in spans
    /\ Len(clean) = 2
    /\ clean[1] = <<"D", "o", "g">>

----------------------------------------------------------------------------
(* build_mcq *)

Backups == << <<"c", "o", "m", "p", "o", "n", "e", "n", "t">>, <<"p", "r", "o", "c", "e", "s", "s">>, <<"f", "a", "c", "t", "o", "r">>, <<"s", "t", "r", "u", "c", "t", "u", "r", "e">> >>

\* the backup loop of build_mcq, from backup i on
RECURSIVE backup_fill_from(_, _, _)
backup_fill_from(distractors, a, i) ==
    IF i > Len(Backups) THEN distractors
    ELSE IF Len(distractors) >= 3 THEN distractors
    ELSE IF valid_option(Backups[i], a)
         THEN backup_fill_from(Append(distractors, Backups[i]), a, i + 1)
         ELSE backup_fill_from(distractors, a, i + 1)

backup_fill(distractors, a) ==
    IF Len(distractors) < 3 THEN backup_fill_from(distractors, a, 1) ELSE distractors

\* options before the shuffle
mcq_options(distractors, a) == backup_fill(distractors, a) \o <<a>>

\* random.shuffle(options): perm is the permutation the generator draws
shuffle(options, perm) == [i \in DOMAIN options |-> options[perm[i]]]

\* options.index(x), counted from 0 as in Python
index(options, x) ==
    (CHOOSE i \in DOMAIN options :
        options[i] = x /\ \A j \in 1..(i - 1) : options[j] # x) - 1

\* random.choice(stems)
StemChoices(stems) == { stems[i] : i \in DOMAIN stems }

\* stem: the stem random.choice draws; options: the shuffled option list
build_mcq(stems, s, a, stem, options) ==
    IF stems = <<>> THEN NoRecord
    ELSE IF a = <<>> \/ WordCount(a) > 5 THEN NoRecord
    ELSE [type |-> "mcq", question |-> stem, options |-> options,
          answer_index |-> index(options, a), answer |-> a, source |-> s]

InitMcq ==
    /\ pc = "ready"
    /\ ans \in AnswerU
    /\ sent = SentenceOf(ans)
    /\ wordnet_ok \in BOOLEAN
    /\ lemmas \in DistinctSeqs(LemmaU, MaxLemmas)
    /\ (~wordnet_ok => lemmas = <<>>)
    /\ spans \in SubsetsUpTo(SpanU, MaxSpans)
    /\ needed = 3
    /\ qs \in StemLists
    /\ clean = <<>> /\ rec = NoRecord
    /\ doc = NoDoc
    /\ GenIdle

\* returns before any random draw when there is no stem or no usable answer
CallBuildMcq ==
    /\ pc = "ready"
    /\ IF qs = <<>> \/ ans = <<>> \/ WordCount(ans) > 5
       THEN /\ rec' = build_mcq(qs, sent, ans, <<>>, <<>>)
            /\ clean' = clean
       ELSE \E ranked \in Orderings(SemCands(ans, spans)) :
              LET dis == assemble_distractors(ans, 3, wordnet_ok, lemmas, spans, ranked)
                  opts == mcq_options(dis, ans)
              IN  \E stem \in StemChoices(qs), perm \in Permutations(DOMAIN opts) :
                    /\ clean' = dis
                    /\ rec' = build_mcq(qs, sent, ans, stem, shuffle(opts, perm))
    /\ pc' = "done"
    /\ UNCHANGED <<doc, sent, ans, wordnet_ok, lemmas, spans, needed, qs>>
    /\ UNCHANGED genVars

NextMcq == CallBuildMcq

SpecMcq == InitMcq /\ [][NextMcq]_vars

\* C1: every record build_mcq returns has exactly 4 options, the option at
\* answer_index is the answer, and the answer occurs exactly once in options.
C1_McqShape ==
    rec.type = "mcq" =>
        /\ Len(rec.options) = 4
        /\ rec.options[rec.answer_index + 1] = rec.answer
        /\ Cardinality({i \in DOMAIN rec.options : rec.options[i] = rec.answer}) = 1

\* a record whose answer is itself a backup word and was shuffled off the
\* last place
C1_Witness ==
    /\ rec.type = "mcq"
    /\ rec.answer = <<"p", "r", "o", "c", "e", "s", "s">>
    /\ rec.answer_index = 1
    /\ \E i \in DOMAIN rec.options : rec.options[i] = <<"s", "t", "r", "u", "c", "t", "u", "r", "e">>

\* C3: in every MCQ record the three non-answer options are pairwise distinct
\* case-insensitively and distinct from the answer, also after the backup fill.
C3_DistractorsDistinct ==
    rec.type = "mcq" =>
        LET others == { i \in DOMAIN rec.options : i # rec.answer_index + 1 } IN
        /\ \A i \in others : lower(rec.options[i]) # lower(rec.answer)
        /\ \A i, j \in others :
             i # j => lower(rec.options[i]) # lower(rec.options[j])

----------------------------------------------------------------------------
(* build_fill_blank *)

Marker == <<"_", "_", "_", "_", "_">>

\* s.endswith(suffix)
endswith(s, suffix) ==
    Len(s) >= Len(suffix) /\ SubSeq(s, Len(s) - Len(suffix) + 1, Len(s)) = suffix

ensure_period(s0) ==
    LET s == strip(s0) IN
    IF ~(endswith(s, <<".">>) \/ endswith(s, <<"?">>)) THEN s \o <<".">> ELSE s

\* the least position >= i where pat occurs in s, or 0; ci: ignoring case
RECURSIVE Find(_, _, _, _)
Find(s, pat, i, ci) ==
    IF i + Len(pat) - 1 > Len(s) THEN 0
    ELSE LET w == SubSeq(s, i, i + Len(pat) - 1) IN
         IF (IF ci THEN lower(w) = lower(pat) ELSE w = pat) THEN i
         ELSE Find(s, pat, i + 1, ci)

\* re.compile(re.escape(pat), flags=re.IGNORECASE).sub(rep, s, count=1), pat non-empty
sub_first_ignorecase(s, pat, rep) ==
    LET i == Find(s, pat, 1, TRUE) IN
    IF i = 0 THEN s
    ELSE SubSeq(s, 1, i - 1) \o rep \o SubSeq(s, i + Len(pat), Len(s))

\* s.replace(old, new), old non-empty: every non-overlapping occurrence, left to right
RECURSIVE replace(_, _, _)
replace(s, old, new) ==
    LET i == Find(s, old, 1, FALSE) IN
    IF i = 0 THEN s
    ELSE SubSeq(s, 1, i - 1) \o new \o replace(SubSeq(s, i + Len(old), Len(s)), old, new)

\* s.count(pat), pat non-empty
RECURSIVE count(_, _)
count(s, pat) ==
    LET i == Find(s, pat, 1, FALSE) IN
    IF i = 0 THEN 0 ELSE 1 + count(SubSeq(s, i + Len(pat), Len(s)), pat)

\* a: the answer extract_candidate_answer(s) returns
build_fill_blank(s, a) ==
    IF a = <<>> THEN NoRecord
    ELSE LET blanked == sub_first_ignorecase(s, a, Marker) IN
         IF blanked = s THEN NoRecord
         ELSE [type |-> "fill_blank", question |-> ensure_period(blanked),
               answer |-> a, source |-> s]

\* extract_candidate_answer returns the text of an entity, token or noun chunk
\* of the sentence, which is a piece of the sentence, or the empty string
ExtractOutcomes(s) ==
    { SubSeq(s, i, j) : i \in 1..Len(s), j \in 1..Len(s) } \cup {<<>>}

MaxSentLen == 6

FillBlankAlphabet == { "a", "A", "_", "?" }

\* the trimmed, non-empty strings over an alphabet
Sentences(alphabet, n) ==
    { s \in UNION { [1..k -> alphabet] : k \in 1..n } : strip(s) = s }

InitFillBlank ==
    /\ pc = "ready"
    /\ sent \in Sentences(FillBlankAlphabet, MaxSentLen)
    /\ ans = <<>> /\ wordnet_ok = FALSE /\ lemmas = <<>> /\ spans = {}
    /\ needed = 0 /\ qs = <<>> /\ clean = <<>> /\ rec = NoRecord
    /\ doc = NoDoc
    /\ GenIdle

CallBuildFillBlank ==
    /\ pc = "ready"
    /\ \E a \in ExtractOutcomes(sent) :
         /\ ans' = a
         /\ rec' = build_fill_blank(sent, a)
    /\ pc' = "done"
    /\ UNCHANGED <<doc, sent, wordnet_ok, lemmas, spans, needed, qs, clean>>
    /\ UNCHANGED genVars

NextFillBlank == CallBuildFillBlank

SpecFillBlank == InitFillBlank /\ [][NextFillBlank]_vars

\* C4: in every fill-blank record the blank marker occurs exactly once in the
\* question, and putting the answer in its place gives back the source
\* sentence, up to the terminal punctuation ensure_period appended.
C4_RoundTrip ==
    rec.type = "fill_blank" =>
        /\ count(rec.question, Marker) = 1
        /\ replace(rec.question, Marker, rec.answer)
             \in { rec.source, rec.source \o <<".">> }

----------------------------------------------------------------------------
(* build_true_false *)

Digits == <<"0", "1", "2", "3", "4", "5", "6", "7", "8", "9">>

IsDigit(c) == \E i \in DOMAIN Digits : Digits[i] = c

DigitVal(c) == (CHOOSE i \in DOMAIN Digits : Digits[i] = c) - 1

\* int(ds) for a run of decimal digits
RECURSIVE StrToInt(_)
StrToInt(ds) ==
    IF ds = <<>> THEN 0
    ELSE 10 * StrToInt(SubSeq(ds, 1, Len(ds) - 1)) + DigitVal(ds[Len(ds)])

\* str(n)
RECURSIVE NatToStr(_)
NatToStr(n) ==
    IF n < 10 THEN <<Digits[n + 1]>>
    ELSE Append(NatToStr(n \div 10), Digits[(n % 10) + 1])

IntToStr(n) == IF n < 0 THEN <<"-">> \o NatToStr(0 - n) ELSE NatToStr(n)

HasDigit(s) == \E i \in DOMAIN s : IsDigit(s[i])

\* re.search(r"(\d+)", s): where the first run of digits starts and ends
MatchStart(s) == CHOOSE i \in DOMAIN s : IsDigit(s[i]) /\ \A j \in 1..(i - 1) : ~IsDigit(s[j])

MatchEnd(s) ==
    CHOOSE j \in DOMAIN s :
        /\ j >= MatchStart(s)
        /\ \A k \in MatchStart(s)..j : IsDigit(s[k])
        /\ (j = Len(s) \/ ~IsDigit(s[j + 1]))

Deltas == { -1, 1, 10, -10 }

NotCorrect == <<"I", "t", " ", "i", "s", " ", "n", "o", "t", " ", "c", "o", "r", "r", "e", "c", "t", " ", "t", "h", "a", "t", " ">>

\* make_true: the coin random.choice([True, False]) draws; delta: the
\* perturbation random.choice([-1, +1, +10, -10]) draws
build_true_false(s, make_true, delta) ==
    LET st == strip(s)
        statement == IF ~endswith(st, <<".">>) THEN st \o <<".">> ELSE st
        perturbed ==
            IF make_true THEN statement
            ELSE IF HasDigit(statement)
                 THEN LET val == StrToInt(SubSeq(statement, MatchStart(statement),
                                                 MatchEnd(statement)))
                      IN  replace(statement, IntToStr(val), IntToStr(val + delta))
                 ELSE NotCorrect \o statement
    IN  [type |-> "true_false", statement |-> ensure_period(perturbed),
         answer |-> IF make_true THEN <<"T", "r", "u", "e">> ELSE <<"F", "a", "l", "s", "e">>, source |-> s]

MaxStmtLen == 4

TrueFalseAlphabet == { "0", "1", "9", "a", "." }

InitTrueFalse ==
    /\ pc = "ready"
    /\ sent \in Sentences(TrueFalseAlphabet, MaxStmtLen)
    /\ ans = <<>> /\ wordnet_ok = FALSE /\ lemmas = <<>> /\ spans = {}
    /\ needed = 0 /\ qs = <<>> /\ clean = <<>> /\ rec = NoRecord
    /\ doc = NoDoc
    /\ GenIdle

\* the delta is drawn only on the numeric branch of a false statement
CallBuildTrueFalse ==
    /\ pc = "ready"
    /\ \E make_true \in BOOLEAN :
         IF make_true \/ ~HasDigit(sent)
         THEN rec' = build_true_false(sent, make_true, 0)
         ELSE \E delta \in Deltas : rec' = build_true_false(sent, make_true, delta)
    /\ pc' = "done"
    /\ UNCHANGED <<doc, sent, ans, wordnet_ok, lemmas, spans, needed, qs, clean>>
    /\ UNCHANGED genVars

NextTrueFalse == CallBuildTrueFalse

SpecTrueFalse == InitTrueFalse /\ [][NextTrueFalse]_vars

\* C10: a false statement built from a sentence that contains a decimal
\* integer differs from the sentence only in the first occurrence of that
\* integer, which is replaced by the integer plus a delta from
\* {-1, +1, +10, -10}; later occurrences of the same digits and the leading
\* zeros of the matched number are unchanged; the answer is "False".
C10_FirstOccurrenceOnly ==
    (rec.type = "true_false" /\ rec.answer = <<"F", "a", "l", "s", "e">> /\ HasDigit(rec.source)) =>
        LET st == IF endswith(strip(rec.source), <<".">>) THEN strip(rec.source)
                  ELSE strip(rec.source) \o <<".">>
            a == MatchStart(st)
            b == MatchEnd(st)
            val == StrToInt(SubSeq(st, a, b))
            zeros == SubSeq(st, a, b - Len(IntToStr(val)))
        IN  \E d \in Deltas :
              rec.statement = SubSeq(st, 1, a - 1) \o zeros \o IntToStr(val + d)
                                \o SubSeq(st, b + 1, Len(st))

----------------------------------------------------------------------------
(* build_short_answer *)

\* a: the answer extract_candidate_answer(s) returns; stem: random.choice(stems)
build_short_answer(stems, s, a, stem) ==
    IF stems = <<>> THEN NoRecord
    ELSE [type |-> "short_answer", question |-> stem,
          answer |-> IF a # <<>> THEN a ELSE s, source |-> s]

----------------------------------------------------------------------------
(* generate_from_text *)

MaxSegs == 2

\* the values of max_sents tried
MaxSentsChoices == { 1, 2 }

\* the spans doc.sents can hold: a blank one and two sentences, one of them
\* with trailing white space
RawSegs == { <<" ">>, <<"a">>, <<"b", " ">> }

NumQChoices == { 1, 3 }

IncludeChoices ==
    { <<>>,
      <<"mcq">>,
      <<"short_answer">>,
      <<"true_false", "mcq">>,
      <<"fill_blank", "essay">>,
      <<"mcq", "fill_blank", "true_false">>,
      <<"short_answer", "true_false", "fill_blank", "mcq">> }

split_sentences_notrunc(segs, n) ==
    SelectSeq([i \in DOMAIN segs |-> strip(segs[i])], LAMBDA t : t # <<>>)

split_sentences(segs, n) ==
    Take(SelectSeq([i \in DOMAIN segs |-> strip(segs[i])], LAMBDA t : t # <<>>), n)

\* response: the question lines parsed from the stem service's reply
qg_from_sentence(response, num_return) == Take(response, num_return)

\* sidx is a history field no code reads: the position in `sentences` of the
\* sentence the record was built from
Tagged(r, i) ==
    IF r = NoRecord THEN r
    ELSE [f \in DOMAIN r \cup {"sidx"} |-> IF f = "sidx" THEN i ELSE r[f]]

One(r) == IF r = NoRecord THEN <<>> ELSE <<r>>

RECURSIVE RecordsInTupleOrder(_, _, _, _, _, _)
RecordsInTupleOrder(inc, i, mcq, fb, tf, sa) ==
    IF i > Len(inc) THEN <<>>
    ELSE (CASE inc[i] = "mcq" -> One(mcq)
            [] inc[i] = "fill_blank" -> One(fb)
            [] inc[i] = "true_false" -> One(tf)
            [] inc[i] = "short_answer" -> One(sa)
            [] OTHER -> <<>>)
         \o RecordsInTupleOrder(inc, i + 1, mcq, fb, tf, sa)

sentence_records_tuple_order(inc, mcq, fb, tf, sa) ==
    RecordsInTupleOrder(inc, 1, mcq, fb, tf, sa)

sentence_records_always_tf(inc, mcq, fb, tf, sa) ==
    (IF InSeq("mcq", inc) THEN One(mcq) ELSE <<>>)
    \o (IF InSeq("fill_blank", inc) THEN One(fb) ELSE <<>>)
    \o One(tf)
    \o (IF InSeq("short_answer", inc) THEN One(sa) ELSE <<>>)

\* what one pass of the loop appends to out; mcq, fb, tf, sa are what the
\* builders return for the sentence
sentence_records(inc, mcq, fb, tf, sa) ==
    (IF InSeq("mcq", inc) THEN One(mcq) ELSE <<>>)
    \o (IF InSeq("fill_blank", inc) THEN One(fb) ELSE <<>>)
    \o (IF InSeq("true_false", inc) THEN One(tf) ELSE <<>>)
    \o (IF InSeq("short_answer", inc) THEN One(sa) ELSE <<>>)

None == << "None" >>

\* q.get(name)
get(q, name) == IF name \in DOMAIN q THEN q[name] ELSE None

\* the arguments of json.dumps, which is one-to-one on them
dedup_key(q) ==
    LET question == get(q, "question")
        text == IF question # None /\ question # <<>> THEN question
                ELSE get(q, "statement")
    IN  <<get(q, "type"), text>>

RECURSIVE DedupLoop(_, _, _, _)
DedupLoop(o, i, seen, deduped) ==
    IF i > Len(o) THEN deduped
    ELSE IF dedup_key(o[i]) \notin seen
         THEN DedupLoop(o, i + 1, seen \cup {dedup_key(o[i])}, Append(deduped, o[i]))
         ELSE DedupLoop(o, i + 1, seen, deduped)

RECURSIVE DedupLoopTextOnly(_, _, _, _)
DedupLoopTextOnly(o, i, seen, deduped) ==
    IF i > Len(o) THEN deduped
    ELSE IF dedup_key(o[i])[2] \notin seen
         THEN DedupLoopTextOnly(o, i + 1, seen \cup {dedup_key(o[i])[2]},
                                Append(deduped, o[i]))
         ELSE DedupLoopTextOnly(o, i + 1, seen, deduped)

dedup_text_only(o) == DedupLoopTextOnly(o, 1, {}, <<>>)

dedup(o) == DedupLoop(o, 1, {}, <<>>)

\* the shuffles drawn while the orchestrator is under study
ShuffleChoices(n) == { [i \in 1..n |-> i], [i \in 1..n |-> n + 1 - i] }

InitGen ==
    /\ pc = "start"
    /\ doc_sents \in SeqsUpTo(RawSegs, MaxSegs)
    /\ max_sents \in MaxSentsChoices
    /\ num_q_per_sent \in NumQChoices
    /\ include_types \in IncludeChoices
    /\ sentences = <<>> /\ idx = 0 /\ out = <<>> /\ returned = <<>> /\ calls = <<>>
    /\ BuilderIdle

\* sentences = split_sentences(text, max_sents); doc_sents is what the
\* annotation service segments the cleaned text into
Split ==
    /\ pc = "start"
    /\ sentences' = split_sentences(doc_sents, max_sents)
    /\ pc' = "loop"
    /\ UNCHANGED <<doc_sents, max_sents, num_q_per_sent, include_types, idx, out,
                   returned, calls>>
    /\ UNCHANGED builderVars

\* one pass of `for s in sentences` in which the stem service answers
ProcessSentence ==
    /\ pc = "loop"
    /\ idx < Len(sentences)
    /\ LET s == sentences[idx + 1] IN
       \E response \in StemLists, a \in ExtractOutcomes(s), make_true \in BOOLEAN :
         LET stems == qg_from_sentence(response, num_q_per_sent)
             dis == assemble_distractors(a, 3, wordnet_ok, lemmas, spans, <<>>)
             opts == mcq_options(dis, a)
             draws == IF stems = <<>> THEN {<<>>} ELSE StemChoices(stems)
             deltas == IF make_true \/ ~HasDigit(s) THEN {0} ELSE Deltas
         IN  \E stem1 \in (IF InSeq("mcq", include_types) THEN draws ELSE {<<>>}),
                stem2 \in (IF InSeq("short_answer", include_types) THEN draws ELSE {<<>>}),
                perm \in ShuffleChoices(Len(opts)),
                delta \in deltas :
               out' = out \o sentence_records(include_types,
                        Tagged(build_mcq(stems, s, a, stem1, shuffle(opts, perm)), idx + 1),
                        Tagged(build_fill_blank(s, a), idx + 1),
                        Tagged(build_true_false(s, make_true, delta), idx + 1),
                        Tagged(build_short_answer(stems, s, a, stem2), idx + 1))
    /\ calls' = Append(calls, sentences[idx + 1])
    /\ idx' = idx + 1
    /\ UNCHANGED <<pc, doc_sents, max_sents, num_q_per_sent, include_types,
                   sentences, returned>>
    /\ UNCHANGED builderVars

\* client.chat.completions.create raises inside qg_from_sentence: neither
\* qg_from_sentence nor generate_from_text catches it
StemServiceFails ==
    /\ pc = "loop"
    /\ idx < Len(sentences)
    /\ calls' = Append(calls, sentences[idx + 1])
    /\ pc' = "raised"
    /\ UNCHANGED <<doc_sents, max_sents, num_q_per_sent, include_types, sentences,
                   idx, out, returned>>
    /\ UNCHANGED builderVars

\* the loop is over: deduplicate and return
Dedup ==
    /\ pc = "loop"
    /\ idx = Len(sentences)
    /\ returned' = dedup(out)
    /\ pc' = "done"
    /\ UNCHANGED <<doc_sents, max_sents, num_q_per_sent, include_types, sentences,
                   idx, out, calls>>
    /\ UNCHANGED builderVars

NextGen == Split \/ ProcessSentence \/ StemServiceFails \/ Dedup

SpecGen == InitGen /\ [][NextGen]_vars

----------------------------------------------------------------------------
(* Properties of generate_from_text *)

\* (type, primary text) of a record: the statement of a true/false record,
\* the question of any other
ClaimKey(r) ==
    <<r.type, IF r.type = "true_false" THEN r.statement ELSE r.question>>

\* positions of out whose key no earlier position has
FirstOfKey == { i \in DOMAIN out : \A j \in 1..(i - 1) : ClaimKey(out[j]) # ClaimKey(out[i]) }

\* the k-th smallest member of a set of positions
Kth(I, k) == CHOOSE i \in I : Cardinality({ j \in I : j <= i }) = k

\* C5: the returned collection is the sequence of built records, in their
\* order, without every record whose (type, primary text) key an earlier
\* record has; so no two returned records share a key.
C5_DedupKeepsFirst ==
    pc = "done" =>
        /\ Len(returned) = Cardinality(FirstOfKey)
        /\ \A k \in DOMAIN returned : returned[k] = out[Kth(FirstOfKey, k)]
        /\ \A i, j \in DOMAIN returned :
             i # j => ClaimKey(returned[i]) # ClaimKey(returned[j])

\* a later record was dropped and the one after it was kept
C5_Witness ==
    /\ pc = "done"
    /\ Len(returned) >= 2
    /\ \E i \in DOMAIN out :
         /\ i \notin FirstOfKey
         /\ \E j \in FirstOfKey : j > i

\* C6: every record generate_from_text returns has a type that is a member of
\* include_types.
C6_OnlyRequestedTypes ==
    /\ \A i \in DOMAIN out : InSeq(out[i].type, include_types)
    /\ \A i \in DOMAIN returned : InSeq(returned[i].type, include_types)

\* two sentences, only mcq requested, two mcq records returned
C6_Witness ==
    /\ pc = "done"
    /\ include_types = <<"mcq">>
    /\ Len(calls) = 2
    /\ Len(returned) = 2

\* the trimmed non-empty spans of doc.sents, by position in doc_sents
NonEmptyAt == { j \in DOMAIN doc_sents : strip(doc_sents[j]) # <<>> }

\* the k-th non-empty sentence of the segmented text
NthSentence(k) == strip(doc_sents[Kth(NonEmptyAt, k)])

FirstSentences ==
    { NthSentence(k) : k \in 1..Min(max_sents, Cardinality(NonEmptyAt)) }

\* C7: the stem service is called for the first max_sents non-empty sentences
\* only, in document order, and the source of every record is one of them.
C7_FirstMaxSentsOnly ==
    /\ Len(calls) <= Min(max_sents, Cardinality(NonEmptyAt))
    /\ \A k \in DOMAIN calls : calls[k] = NthSentence(k)
    /\ \A i \in DOMAIN out : out[i].source \in FirstSentences
    /\ \A i \in DOMAIN returned : returned[i].source \in FirstSentences
    /\ pc = "done" => Len(calls) = Min(max_sents, Cardinality(NonEmptyAt))

\* the text has two different sentences, max_sents is 1, and the run returned
\* records of the first one
C7_Witness ==
    /\ pc = "done"
    /\ max_sents = 1
    /\ doc_sents = << <<"a">>, <<"b", " ">> >>
    /\ returned # <<>>

\* C8: a failure of the stem service for one sentence is never propagated
\* out of generate_from_text.
C8_NoFatalError == pc # "raised"

TypeRank(t) ==
    CASE t = "mcq" -> 1 [] t = "fill_blank" -> 2 [] t = "true_false" -> 3
      [] t = "short_answer" -> 4 [] OTHER -> 5

Before(r1, r2) ==
    \/ r1.sidx < r2.sidx
    \/ r1.sidx = r2.sidx /\ TypeRank(r1.type) < TypeRank(r2.type)

\* C9: the records are in sentence-then-type order, the types in the order
\* mcq, fill_blank, true_false, short_answer whatever the order of
\* include_types, before deduplication and in the returned collection.
C9_SentenceThenTypeOrder ==
    /\ \A i, j \in DOMAIN out : i < j => Before(out[i], out[j])
    /\ \A i, j \in DOMAIN returned : i < j => Before(returned[i], returned[j])

\* include_types lists the types backwards and a sentence gave all four
C9_Witness ==
    /\ pc = "done"
    /\ include_types = <<"short_answer", "true_false", "fill_blank", "mcq">>
    /\ Len(returned) >= 5
    /\ returned[1].type = "mcq" /\ returned[2].type = "fill_blank"
    /\ returned[3].type = "true_false" /\ returned[4].type = "short_answer"
    /\ returned[5].sidx = 2

----------------------------------------------------------------------------
(* extract_candidate_answer *)

MaxTokens == 2

LowerCaseLetters ==
    { "a", "b", "c", "d", "e", "f", "g", "h", "i", "j", "k", "l", "m",
      "n", "o", "p", "q", "r", "s", "t", "u", "v", "w", "x", "y", "z" }

\* t.is_alpha: the token's text is non-empty and made of letters only
is_alpha(text) ==
    text # <<>> /\ \A i \in DOMAIN text : LowerChar(text[i]) \in LowerCaseLetters

\* insertion into a list sorted by descending length, after the entries as long
RECURSIVE InsertByLenDesc(_, _)
InsertByLenDesc(x, s) ==
    IF s = <<>> THEN <<x>>
    ELSE IF Len(Head(s)) >= Len(x) THEN <<Head(s)>> \o InsertByLenDesc(x, Tail(s))
    ELSE <<x>> \o s

\* sorted(toks, key=len, reverse=True): stable, so equally long tokens keep
\* their document order
RECURSIVE SortByLenDesc(_)
SortByLenDesc(s) ==
    IF s = <<>> THEN <<>>
    ELSE InsertByLenDesc(s[Len(s)], SortByLenDesc(SubSeq(s, 1, Len(s) - 1)))

TextsOf(toks) == [i \in DOMAIN toks |-> toks[i].text]

\* step 4 without the sort: the first eligible token
extract_candidate_answer_unsorted(d) ==
    LET ents == SelectSeq(d.ents, LAMBDA e : WordCount(e) >= 1 /\ WordCount(e) <= 4)
        propns == TextsOf(SelectSeq(d.tokens, LAMBDA t :
                     t.pos = "PROPN" /\ WordCount(t.text) >= 1 /\ WordCount(t.text) <= 3))
        chunks == SelectSeq(d.noun_chunks, LAMBDA c :
                     WordCount(c) >= 1 /\ WordCount(c) <= 3 /\ lower(c) \notin STOPLIKE)
        toks == TextsOf(SelectSeq(d.tokens, LAMBDA t :
                     is_alpha(t.text) /\ ~t.is_stop /\ lower(t.lemma) \notin STOPLIKE))
    IN  IF ents # <<>> THEN ents[1]
        ELSE IF propns # <<>> THEN propns[1]
        ELSE IF chunks # <<>> THEN chunks[1]
        ELSE IF toks # <<>> THEN toks[1] ELSE <<>>

\* d: the annotation nlp(sent)
extract_candidate_answer(d) ==
    LET ents == SelectSeq(d.ents, LAMBDA e : WordCount(e) >= 1 /\ WordCount(e) <= 4)
        propns == TextsOf(SelectSeq(d.tokens, LAMBDA t :
                     t.pos = "PROPN" /\ WordCount(t.text) >= 1 /\ WordCount(t.text) <= 3))
        chunks == SelectSeq(d.noun_chunks, LAMBDA c :
                     WordCount(c) >= 1 /\ WordCount(c) <= 3 /\ lower(c) \notin STOPLIKE)
        toks == SortByLenDesc(TextsOf(SelectSeq(d.tokens, LAMBDA t :
                     is_alpha(t.text) /\ ~t.is_stop /\ lower(t.lemma) \notin STOPLIKE)))
    IN  IF ents # <<>> THEN ents[1]
        ELSE IF propns # <<>> THEN propns[1]
        ELSE IF chunks # <<>> THEN chunks[1]
        ELSE IF toks # <<>> THEN toks[1] ELSE <<>>

\* tokens the annotation service can produce: a proper noun, a stop word,
\* two nouns of different length, a word that is no stop word of the service
\* but whose lemma is in STOPLIKE, and a number
TokenU ==
    { [text |-> <<"R", "o", "m", "e">>, pos |-> "PROPN", is_stop |-> FALSE, lemma |-> <<"R", "o", "m", "e">>],
      [text |-> <<"T", "h", "e">>, pos |-> "DET", is_stop |-> TRUE, lemma |-> <<"t", "h", "e">>],
      [text |-> <<"c", "a", "t">>, pos |-> "NOUN", is_stop |-> FALSE, lemma |-> <<"c", "a", "t">>],
      [text |-> <<"a", "p", "p", "l", "e", "s">>, pos |-> "NOUN", is_stop |-> FALSE, lemma |-> <<"a", "p", "p", "l", "e">>],
      [text |-> <<"T", "h", "a", "t", "s">>, pos |-> "PRON", is_stop |-> FALSE, lemma |-> <<"t", "h", "a", "t">>],
      [text |-> <<"4", "2">>, pos |-> "NUM", is_stop |-> FALSE, lemma |-> <<"4", "2">>] }

\* entity texts: one word, and five words (too long for step 1)
EntU == { <<"R", "o", "m", "e">>, <<"a", " ", "b", " ", "c", " ", "d", " ", "e">> }

\* noun-chunk texts: a stop word, two words, and four words (too long)
ChunkU == { <<"T", "h", "e">>, <<"r", "e", "d", " ", "c", "a", "t">>, <<"a", " ", "b", " ", "c", " ", "d">> }

\* the text the tokens were cut from
RECURSIVE JoinTokens(_)
JoinTokens(toks) ==
    IF toks = <<>> THEN <<>>
    ELSE IF Len(toks) = 1 THEN toks[1].text
    ELSE toks[1].text \o <<" ">> \o JoinTokens(Tail(toks))

InitExtract ==
    /\ pc = "ready"
    /\ doc \in [tokens : SeqsUpTo(TokenU, MaxTokens),
                ents : SeqsUpTo(EntU, MaxSpans),
                noun_chunks : SeqsUpTo(ChunkU, MaxSpans)]
    /\ sent = JoinTokens(doc.tokens)
    /\ ans = <<>> /\ wordnet_ok = FALSE /\ lemmas = <<>> /\ spans = {}
    /\ needed = 0 /\ qs = <<>> /\ clean = <<>> /\ rec = NoRecord
    /\ GenIdle

CallExtract ==
    /\ pc = "ready"
    /\ ans' = extract_candidate_answer(doc)
    /\ pc' = "done"
    /\ UNCHANGED <<doc, sent, wordnet_ok, lemmas, spans, needed, qs, clean, rec>>
    /\ UNCHANGED genVars

NextExtract == CallExtract

SpecExtract == InitExtract /\ [][NextExtract]_vars

\* what each step of the cascade may return, by position in the annotation
EligibleEnts ==
    { i \in DOMAIN doc.ents : WordCount(doc.ents[i]) \in 1..4 }

EligiblePropns ==
    { i \in DOMAIN doc.tokens :
        doc.tokens[i].pos = "PROPN" /\ WordCount(doc.tokens[i].text) \in 1..3 }

EligibleChunks ==
    { i \in DOMAIN doc.noun_chunks :
        /\ WordCount(doc.noun_chunks[i]) \in 1..3
        /\ lower(doc.noun_chunks[i]) \notin STOPLIKE }

EligibleTokens ==
    { i \in DOMAIN doc.tokens :
        /\ is_alpha(doc.tokens[i].text)
        /\ ~doc.tokens[i].is_stop
        /\ lower(doc.tokens[i].lemma) \notin STOPLIKE }

First(I) == CHOOSE i \in I : \A j \in I : i <= j

\* the first of the longest eligible tokens
LongestToken ==
    CHOOSE i \in EligibleTokens :
        \A j \in EligibleTokens :
            \/ Len(doc.tokens[j].text) < Len(doc.tokens[i].text)
            \/ Len(doc.tokens[j].text) = Len(doc.tokens[i].text) /\ i <= j

\* C11 as stated: extract_candidate_answer returns the empty string only when
\* the sentence has no alphabetic content; for every sentence with at least
\* one alphabetic token the result is non-empty.
C11_EmptyOnlyWithoutAlpha ==
    pc = "done" =>
        ((\E i \in DOMAIN doc.tokens : is_alpha(doc.tokens[i].text)) => ans # <<>>)

\* C11 as amended: extract_candidate_answer returns the first non-empty result
\* of the cascade (entity of 1-4 words, proper noun, noun chunk of 1-3 words
\* outside the stop set, longest alphabetic token that is no stop word), and
\* the empty string exactly when no step has a candidate; so the result is
\* non-empty for every sentence with an alphabetic token that is no stop word.
C11_CascadeFirstNonEmpty ==
    pc = "done" =>
        /\ ans = (IF EligibleEnts # {} THEN doc.ents[First(EligibleEnts)]
                  ELSE IF EligiblePropns # {} THEN doc.tokens[First(EligiblePropns)].text
                  ELSE IF EligibleChunks # {} THEN doc.noun_chunks[First(EligibleChunks)]
                  ELSE IF EligibleTokens # {} THEN doc.tokens[LongestToken].text
                  ELSE <<>>)
        /\ (ans = <<>>) <=> (/\ EligibleEnts = {} /\ EligiblePropns = {}
                            /\ EligibleChunks = {} /\ EligibleTokens = {})
        /\ EligibleTokens # {} => ans # <<>>

\* no entity, proper noun or usable chunk; the longer of two nouns, which
\* comes second in the sentence, is returned
C11_Witness ==
    /\ pc = "done"
    /\ EligibleEnts = {} /\ EligiblePropns = {} /\ EligibleChunks = {}
    /\ doc.noun_chunks # <<>>
    /\ Len(doc.tokens) = 2
    /\ doc.tokens[1].text = <<"c", "a", "t">>
    /\ ans = <<"a", "p", "p", "l", "e", "s">>

====
